---------------------------- MODULE Spec2Model ----------------------------
(***************************************************************************)
(* entropyscan: the chunked Shannon-entropy calculator (entropy_scan/      *)
(* mod.rs), the statistics engine (entropy_scan/stats.rs) and the `stats`  *)
(* command of main.rs that composes them.                                  *)
(*                                                                         *)
(* Three specifications share the module's variables:                      *)
(*   SpecEntropy  one call of calculate_entropy on one file;               *)
(*   SpecStats    one call of one statistics function on one input slice;  *)
(*   Spec         the `stats` command: collect_targets, the loop of        *)
(*                collect_entropies, the Stats record, the outliers.       *)
(*                                                                         *)
(* Numbers.  f64 values are modelled exactly where the code's arithmetic   *)
(* is exact on them and as exact rationals <<num, den>> otherwise          *)
(* (floating-point rounding is not modelled).  An entropy is an integer    *)
(* count of EntropyUnit-ths of a bit; log2 is a table in hundredths of a   *)
(* bit.  u64 file sizes are two 16-bit limbs <<hi, lo>>, because           *)
(* MAX_FILE_SIZE = 2^31 does not fit the model checker's integers.         *)
(***************************************************************************)
EXTENDS Integers, Sequences, FiniteSets

VARIABLES
    file,        \* SpecEntropy: the path handed to calculate_entropy
    calcResult,  \* SpecEntropy: its Result<FileEntropy, String>
    data,        \* SpecStats: the slice &[FileEntropy] handed to a statistic
    op,          \* SpecStats: the statistic that was called ("idle": none yet)
    statResult,  \* SpecStats: what the call returned, or that it panicked
    pc,          \* Spec: position of main's Stats branch
    targets,     \* Spec: Vec<PathBuf> returned by collect_targets
    idx,         \* Spec: number of targets the loop of collect_entropies has taken
    entropies,   \* Spec: the Vec<FileEntropy> being collected
    no_outliers, \* Spec: the -n flag
    stats,       \* Spec: the Stats record, once built
    outliers     \* Spec: the outliers handed to the output, once computed

vars == <<file, calcResult, data, op, statResult,
          pc, targets, idx, entropies, no_outliers, stats, outliers>>

calcVars == <<file, calcResult>>
statVars == <<data, op, statResult>>
mainVars == <<pc, targets, idx, entropies, no_outliers, stats, outliers>>

---------------------------------------------------------------------------
(* Bounds of the model.                                                    *)

\* Number of distinct byte values (256 in the code: frequency: [u32; 256]).
NumByteValues == 2

\* Chunk length in bytes (2,560,000 in the code), scaled down.
MAX_ENTROPY_CHUNK == 2

\* A file holds at most two full chunks and a shorter last one of up to MaxTail bytes.
MaxTail == 1

\* Longest slice handed to a statistic, and the largest entropy value in it.
MaxLen == 6
MaxEntropyValue == 2

\* Most targets file discovery returns.
MaxTargets == 4

---------------------------------------------------------------------------
(* Rust's Option and Result, and a panic (an abort of the process).        *)

None == [kind |-> "None"]
Some(v) == [kind |-> "Some", value |-> v]
Panic == [kind |-> "Panic"]
Ok(v) == [kind |-> "Ok", value |-> v]
Err(msg) == [kind |-> "Err", error |-> msg]
Pending == [kind |-> "Pending"]

\* FileEntropy { path, entropy }
FileEntropy(path, entropy) == [path |-> path, entropy |-> entropy]

---------------------------------------------------------------------------
(* u64 sizes as limbs <<hi, lo>>: the value is hi * 2^16 + lo.             *)

LimbBase == 2 ^ 16

U64Gt(a, b) == \/ a[1] > b[1]
               \/ a[1] = b[1] /\ a[2] > b[2]

U64Succ(a) == IF a[2] + 1 = LimbBase THEN <<a[1] + 1, 0>> ELSE <<a[1], a[2] + 1>>

U64Pred(a) == IF a[2] = 0 THEN <<a[1] - 1, LimbBase - 1>> ELSE <<a[1], a[2] - 1>>

\* const MAX_FILE_SIZE: u64 = 2147483648 = 32768 * 2^16
MAX_FILE_SIZE == <<32768, 0>>

---------------------------------------------------------------------------
(* The entropy calculator.                                                 *)

Bytes == 0 .. (NumByteValues - 1)

Min(a, b) == IF a < b THEN a ELSE b

RECURSIVE Gcd(_, _)
Gcd(a, b) == IF b = 0 THEN a ELSE Gcd(b, a % b)

Lcm(a, b) == (a * b) \div Gcd(a, b)

RECURSIVE LcmUpTo(_)
LcmUpTo(n) == IF n <= 1 THEN 1 ELSE Lcm(n, LcmUpTo(n - 1))

\* f64::log2 of a whole number, in hundredths of a bit.
Log2Fix(n) ==
    CASE n = 1 -> 0
      [] n = 2 -> 100
      [] n = 3 -> 158
      [] n = 4 -> 200
      [] n = 5 -> 232
      [] n = 6 -> 258
      [] n = 7 -> 281
      [] n = 8 -> 300

\* Every chunk length t divides ChunkDenominator, so -p*log2(p) with p = count/t
\* is a whole number of EntropyUnit-ths of a bit.
ChunkDenominator == LcmUpTo(MAX_ENTROPY_CHUNK)
EntropyUnit == 100 * ChunkDenominator

\* frequency[b] after the loop over the chunk's bytes.
Frequency(chunk) == [b \in Bytes |-> Cardinality({i \in 1 .. Len(chunk) : chunk[i] = b})]

\* -p * p.log2() for p = count / total_bytes = (count/total) * (log2 total - log2 count)
Surprisal(count, total_bytes) ==
    count * (Log2Fix(total_bytes) - Log2Fix(count)) * (ChunkDenominator \div total_bytes)

RECURSIVE SumOver(_, _)
SumOver(f, S) == IF S = {} THEN 0
                 ELSE LET x == CHOOSE y \in S : TRUE IN f[x] + SumOver(f, S \ {x})

\* What one chunk adds to `entropy`: the loop over frequency.iter(), zero counts skipped.
ChunkEntropy(chunk) ==
    LET frequency == Frequency(chunk)
        total_bytes == Len(chunk)
        seen == {b \in Bytes : frequency[b] # 0}
    IN  SumOver([b \in seen |-> Surprisal(frequency[b], total_bytes)], seen)

\* The whole file's frequency table in place of each chunk's own (the division by
\* the file's length truncates when that length does not divide ChunkDenominator).
MergedTableEntropy(file_bytes, entropy) ==
    IF file_bytes = <<>> THEN entropy
    ELSE LET frequency == Frequency(file_bytes)
             total_bytes == Len(file_bytes)
             seen == {b \in Bytes : frequency[b] # 0}
         IN  entropy + SumOver([b \in seen |->
                 (frequency[b] * (Log2Fix(total_bytes) - Log2Fix(frequency[b]))
                     * ChunkDenominator) \div total_bytes], seen)

\* for chunk in file_bytes.chunks(MAX_ENTROPY_CHUNK) { ... entropy -= p * p.log2() }
RECURSIVE AccumulateEntropy(_, _)
AccumulateEntropy(file_bytes, entropy) ==
    IF file_bytes = <<>> THEN entropy
    ELSE LET n == Min(MAX_ENTROPY_CHUNK, Len(file_bytes))
             chunk == SubSeq(file_bytes, 1, n)
             rest == SubSeq(file_bytes, n + 1, Len(file_bytes))
         IN  AccumulateEntropy(rest, entropy + ChunkEntropy(chunk))

\* The size guard with >= in place of >.
FileTooLargeInclusive(len) == ~U64Gt(MAX_FILE_SIZE, len)

\* metadata.len() > MAX_FILE_SIZE
FileTooLarge(len) == U64Gt(len, MAX_FILE_SIZE)

\* fn calculate_entropy(filename: &PathBuf) -> Result<FileEntropy, String>
calculate_entropy(f) ==
    IF ~f.metaOk THEN Err("Couldn't read file metadata!")
    ELSE IF FileTooLarge(f.len) THEN Err("File too large")
    ELSE IF f.isDir THEN Err("Is a directory")
    ELSE IF ~f.readOk THEN Err("Couldn't read file!")
    ELSE Ok(FileEntropy(f.path, AccumulateEntropy(f.bytes, 0)))

---------------------------------------------------------------------------
(* Exact rationals <<num, den>>, den > 0, in lowest terms.                 *)

Abs(n) == IF n < 0 THEN -n ELSE n

Rat(n, d) == LET g == Gcd(Abs(n), d) IN <<n \div g, d \div g>>

RatOfInt(n) == <<n, 1>>

RatAdd(a, b) == LET l == Lcm(a[2], b[2])
                IN  Rat(a[1] * (l \div a[2]) + b[1] * (l \div b[2]), l)

RatSub(a, b) == RatAdd(a, <<-b[1], b[2]>>)

RatMul(a, b) == Rat(a[1] * b[1], a[2] * b[2])

RatDivInt(a, n) == Rat(a[1], a[2] * n)

---------------------------------------------------------------------------
(* The statistics engine.                                                  *)

\* Iqr { q1, q3, range }
Iqr(q1, q3, range) == [q1 |-> q1, q3 |-> q3, range |-> range]

\* Option::unwrap succeeds on Some alone: on None, and when the call itself
\* panicked, the caller aborts.
IsSome(o) == o.kind = "Some"

\* sorted_data.sort_by(partial_cmp): a stable sort, ascending by entropy.
RECURSIVE SortInto(_, _, _)
SortInto(d, i, sorted) ==
    IF i > Len(d) THEN sorted
    ELSE LET x == d[i]
             k == Cardinality({j \in 1 .. Len(sorted) : sorted[j].entropy <= x.entropy})
         IN  SortInto(d, i + 1,
                      SubSeq(sorted, 1, k) \o <<x>> \o SubSeq(sorted, k + 1, Len(sorted)))

\* fn sort_entropies(data: &[FileEntropy]) -> Vec<FileEntropy>
sort_entropies(d) == SortInto(d, 1, <<>>)

\* 0-based indexing sorted_data[i] of a Vec of length len: usize i, so i < 0 is the
\* underflow of `q1_idx - 1` (a panic in a debug build, usize::MAX and then an
\* index out of bounds in a release build: a panic either way).
IndexPanics(i, len) == i < 0 \/ i >= len

\* let q1_idx = match len % 2 { 0 => len / 4, _ => (len + 1) / 4 };
Q1Index(len) == IF len % 2 = 0 THEN len \div 4 ELSE (len + 1) \div 4

\* let q3_idx = 3 * q1_idx;
Q3Index(len) == 3 * Q1Index(len)

\* The single-element case returning zeros for q1 and q3 as well.
SingletonIqrZero(x) == Iqr(0, 0, 0)

\* if data.len() == 1 { return Some(Iqr { q1: data[0].entropy, q3: data[0].entropy, range: 0.0 }) }
SingletonIqr(x) == Iqr(x.entropy, x.entropy, 0)

\* pub fn interquartile_range(data: &[FileEntropy]) -> Option<Iqr>
interquartile_range(d) ==
    IF d = <<>> THEN None
    ELSE IF Len(d) = 1 THEN Some(SingletonIqr(d[1]))
    ELSE LET sorted_data == sort_entropies(d)
             len == Len(sorted_data)
             q1_idx == Q1Index(len)
             q3_idx == Q3Index(len)
         IN  IF IndexPanics(q1_idx - 1, len) \/ IndexPanics(q3_idx - 1, len)
             THEN Panic
             ELSE LET q1 == sorted_data[q1_idx].entropy
                      q3 == sorted_data[q3_idx].entropy
                  IN  Some(Iqr(q1, q3, q3 - q1))

RECURSIVE SumEntropy(_, _)
SumEntropy(d, i) == IF i > Len(d) THEN 0 ELSE d[i].entropy + SumEntropy(d, i + 1)

\* pub fn mean(data: &[FileEntropy]) -> Option<f64>
mean(d) ==
    IF d = <<>> THEN None
    ELSE Some(Rat(SumEntropy(d, 1), Len(d)))

\* pub fn median(data: &[FileEntropy]) -> Option<f64>
median(d) ==
    IF d = <<>> THEN None
    ELSE LET sorted_data == sort_entropies(d)
             len == Len(sorted_data)
             mid == len \div 2
         IN  IF len % 2 = 0
             THEN IF IndexPanics(mid - 1, len) \/ IndexPanics(mid, len) THEN Panic
                  ELSE Some(Rat(sorted_data[mid].entropy + sorted_data[mid + 1].entropy, 2))
             ELSE IF IndexPanics(mid, len) THEN Panic
                  ELSE Some(RatOfInt(sorted_data[mid + 1].entropy))

RECURSIVE SumSquares(_, _, _)
SumSquares(d, m, i) ==
    IF i > Len(d) THEN RatOfInt(0)
    ELSE LET dev == RatSub(RatOfInt(d[i].entropy), m)
         IN  RatAdd(RatMul(dev, dev), SumSquares(d, m, i + 1))

\* pub fn variance(data: &[FileEntropy]) -> Option<f64>
variance(d) ==
    IF d = <<>> THEN None
    ELSE LET m == mean(d)
         IN  IF ~IsSome(m) THEN Panic
             ELSE Some(RatDivInt(SumSquares(d, m.value, 1), Len(d)))

\* The filter with the upper fence only.
IsOutlierUpperOnly(e, iqr) == 2 * e.entropy > 2 * iqr.q3 + 3 * iqr.range

\* e.entropy < iqr.q1 - 1.5 * iqr.range || e.entropy > iqr.q3 + 1.5 * iqr.range
\* (both sides doubled: 1.5 * range is 3 * range / 2)
IsOutlier(e, iqr) ==
    \/ 2 * e.entropy < 2 * iqr.q1 - 3 * iqr.range
    \/ 2 * e.entropy > 2 * iqr.q3 + 3 * iqr.range

\* data.iter().filter(..).map(|e| e.to_owned()).collect()
RECURSIVE FilterOutliers(_, _, _)
FilterOutliers(d, iqr, i) ==
    IF i > Len(d) THEN <<>>
    ELSE (IF IsOutlier(d[i], iqr) THEN <<d[i]>> ELSE <<>>) \o FilterOutliers(d, iqr, i + 1)

\* entropy_outliers answering None when nothing was flagged.
entropy_outliers_none_if_unflagged(d) ==
    IF d = <<>> THEN None
    ELSE LET iqr == interquartile_range(d)
         IN  IF ~IsSome(iqr) THEN Panic
             ELSE IF FilterOutliers(d, iqr.value, 1) = <<>> THEN None
             ELSE Some(FilterOutliers(d, iqr.value, 1))

\* pub fn entropy_outliers(data: &[FileEntropy]) -> Option<Vec<FileEntropy>>
entropy_outliers(d) ==
    IF d = <<>> THEN None
    ELSE LET iqr == interquartile_range(d)
         IN  IF ~IsSome(iqr) THEN Panic
             ELSE Some(FilterOutliers(d, iqr.value, 1))

---------------------------------------------------------------------------
(* Inputs.                                                                 *)

SeqsUpTo(S, n) == UNION {[1 .. k -> S] : k \in 0 .. n}

MaxFileLen == 2 * MAX_ENTROPY_CHUNK + MaxTail

FileContents == SeqsUpTo(Bytes, MaxFileLen)

\* What fs::metadata reports as len(): nothing, just under, at and just over the maximum.
FileSizes == {<<0, 0>>, U64Pred(MAX_FILE_SIZE), MAX_FILE_SIZE, U64Succ(MAX_FILE_SIZE)}

\* A path as the file system answers for it: fs::metadata (metaOk, len, isDir) and
\* fs::read (readOk, bytes).  The byte strings are scaled down, so len is what the
\* metadata says and is not tied to Len(bytes).
File(path, metaOk, len, isDir, readOk, bytes) ==
    [path |-> path, metaOk |-> metaOk, len |-> len, isDir |-> isDir,
     readOk |-> readOk, bytes |-> bytes]

FilesAt(path) ==
    {File(path, FALSE, <<0, 0>>, FALSE, FALSE, <<>>)}
    \cup {File(path, TRUE, len, isDir, FALSE, <<>>) : len \in FileSizes, isDir \in BOOLEAN}
    \cup {File(path, TRUE, len[1], len[2], TRUE, bytes) :
                len \in FileSizes \X BOOLEAN, bytes \in FileContents}

\* The slices handed to the statistics: path i is the i-th element's.
Slice(es) == [i \in 1 .. Len(es) |-> FileEntropy(i, es[i])]

TukeyExample == Slice(<<1, 2, 2, 2, 2, 2, 2, 2, 2, 100>>)

StatInputs == {Slice(es) : es \in SeqsUpTo(0 .. MaxEntropyValue, MaxLen)} \cup {TukeyExample}

\* The kinds of path file discovery can hand on, by the time each is scored.
FileKinds == {"constant", "mixed", "vanished", "oversized", "directory", "unreadable"}

FileOfKind(path, kind) ==
    CASE kind = "constant"   -> File(path, TRUE, <<0, 1>>, FALSE, TRUE, <<0>>)
      [] kind = "mixed"      -> File(path, TRUE, <<0, 2>>, FALSE, TRUE, <<0, 1>>)
      [] kind = "vanished"   -> File(path, FALSE, <<0, 0>>, FALSE, FALSE, <<>>)
      [] kind = "oversized"  -> File(path, TRUE, U64Succ(MAX_FILE_SIZE), FALSE, TRUE, <<0>>)
      [] kind = "directory"  -> File(path, TRUE, <<0, 0>>, TRUE, FALSE, <<>>)
      [] kind = "unreadable" -> File(path, TRUE, <<0, 1>>, FALSE, FALSE, <<>>)

TargetLists == {[i \in 1 .. Len(ks) |-> FileOfKind(i, ks[i])] : ks \in SeqsUpTo(FileKinds, MaxTargets)}

---------------------------------------------------------------------------
(* SpecEntropy: one call of calculate_entropy.                             *)

MainIdle ==
    /\ pc = "idle"
    /\ targets = <<>>
    /\ idx = 0
    /\ entropies = <<>>
    /\ no_outliers = FALSE
    /\ stats = Pending
    /\ outliers = Pending

CalcIdle == file = File(1, FALSE, <<0, 0>>, FALSE, FALSE, <<>>) /\ calcResult = Pending

StatIdle == data = <<>> /\ op = "idle" /\ statResult = Pending

InitEntropy ==
    /\ file \in FilesAt(1)
    /\ calcResult = Pending
    /\ StatIdle
    /\ MainIdle

CalculateEntropy ==
    /\ calcResult = Pending
    /\ calcResult' = calculate_entropy(file)
    /\ UNCHANGED <<file, statVars, mainVars>>

NextEntropy == CalculateEntropy

SpecEntropy == InitEntropy /\ [][NextEntropy]_vars

---------------------------------------------------------------------------
(* SpecStats: one call of one statistics function.                         *)

InitStats ==
    /\ data \in StatInputs
    /\ op = "idle"
    /\ statResult = Pending
    /\ CalcIdle
    /\ MainIdle

Call(name, result) ==
    /\ op = "idle"
    /\ op' = name
    /\ statResult' = result
    /\ UNCHANGED <<data, calcVars, mainVars>>

CallMean == Call("mean", mean(data))

CallMedian == Call("median", median(data))

CallVariance == Call("variance", variance(data))

CallInterquartileRange == Call("interquartile_range", interquartile_range(data))

CallEntropyOutliers == Call("entropy_outliers", entropy_outliers(data))

NextStats ==
    \/ CallMean
    \/ CallMedian
    \/ CallVariance
    \/ CallInterquartileRange
    \/ CallEntropyOutliers

SpecStats == InitStats /\ [][NextStats]_vars

---------------------------------------------------------------------------
(* Spec: main's Stats branch.                                              *)

\* Stats { target, total, mean, median, variance, iqr } with total the number of
\* scored files instead of the number of targets.
NewStatsScoredTotal(tgts, ents) ==
    LET m == mean(ents)
        md == median(ents)
        v == variance(ents)
        q == interquartile_range(ents)
    IN  IF IsSome(m) /\ IsSome(md) /\ IsSome(v) /\ IsSome(q)
        THEN Some([total |-> Len(ents), mean |-> m.value, median |-> md.value,
                   variance |-> v.value, iqr |-> q.value.range])
        ELSE Panic

\* let stats = Stats { target, total: targets.len(), mean: mean(&entropies).unwrap(),
\*     median: median(&entropies).unwrap(), variance: variance(&entropies).unwrap(),
\*     iqr: interquartile_range(&entropies).unwrap().range };
\* An unwrap of None, or a panic inside a statistic, aborts the process.
NewStats(tgts, ents) ==
    LET m == mean(ents)
        md == median(ents)
        v == variance(ents)
        q == interquartile_range(ents)
    IN  IF IsSome(m) /\ IsSome(md) /\ IsSome(v) /\ IsSome(q)
        THEN Some([total |-> Len(tgts), mean |-> m.value, median |-> md.value,
                   variance |-> v.value, iqr |-> q.value.range])
        ELSE Panic

Init ==
    /\ pc = "start"
    /\ targets = <<>>
    /\ idx = 0
    /\ entropies = <<>>
    /\ no_outliers \in BOOLEAN
    /\ stats = Pending
    /\ outliers = Pending
    /\ CalcIdle
    /\ StatIdle

\* let targets = collect_targets(target.clone());
CollectTargets ==
    /\ pc = "start"
    /\ targets' \in TargetLists
    /\ pc' = "collect"
    /\ UNCHANGED <<idx, entropies, no_outliers, stats, outliers, calcVars, statVars>>

\* fs::read_dir(parent_path).unwrap() / entry.unwrap() on a target that cannot be listed.
CollectTargetsPanics ==
    /\ pc = "start"
    /\ pc' = "panicked"
    /\ UNCHANGED <<targets, idx, entropies, no_outliers, stats, outliers, calcVars, statVars>>

\* The push of a record that replaces what was collected instead of extending it.
PushReplacing(ents, r) == IF r.kind = "Ok" THEN <<r.value>> ELSE ents

\* if let Ok(entropy) = calculate_entropy(target) { entropies.push(entropy); }
Push(ents, r) == IF r.kind = "Ok" THEN Append(ents, r.value) ELSE ents

\* One iteration of `for target in targets` in collect_entropies.
CollectStep ==
    /\ pc = "collect"
    /\ idx < Len(targets)
    /\ entropies' = Push(entropies, calculate_entropy(targets[idx + 1]))
    /\ idx' = idx + 1
    /\ UNCHANGED <<pc, targets, no_outliers, stats, outliers, calcVars, statVars>>

\* collect_entropies has returned: the Stats record is built.
BuildStats ==
    /\ pc = "collect"
    /\ idx = Len(targets)
    /\ stats' = NewStats(targets, entropies)
    /\ pc' = IF IsSome(stats') THEN "report" ELSE "panicked"
    /\ UNCHANGED <<targets, idx, entropies, no_outliers, outliers, calcVars, statVars>>

\* match no_outliers { true => (), false => { let outliers = entropy_outliers(&entropies).unwrap(); .. } }
\* (the same in the Csv, Json and Table arms)
Report ==
    /\ pc = "report"
    /\ outliers' = IF no_outliers THEN Pending ELSE entropy_outliers(entropies)
    /\ pc' = IF no_outliers \/ IsSome(outliers') THEN "done" ELSE "panicked"
    /\ UNCHANGED <<targets, idx, entropies, no_outliers, stats, calcVars, statVars>>

Next ==
    \/ CollectTargets
    \/ CollectTargetsPanics
    \/ CollectStep
    \/ BuildStats
    \/ Report

Spec == Init /\ [][Next]_vars

---------------------------------------------------------------------------
(* The claims.                                                             *)

\* C1: every statistics operation is total: on every input slice, of any length,
\* it returns a value or "no value" and never aborts.
StatisticsAreTotal == op # "idle" => statResult.kind \in {"None", "Some"}

\* C2 (as stated): on the entropies [1,2,2,2,2,2,2,2,2,100] entropy_outliers
\* returns exactly the element with entropy 100.
ExampleFlagsOnly100 ==
    (data = TukeyExample /\ op = "entropy_outliers")
        => statResult = Some(<<FileEntropy(10, 100)>>)

\* C2 (amended): on the entropies [1,2,2,2,2,2,2,2,2,100] the quartile summary is
\* q1 = q3 = 2 with range 0, both fences are 2, and entropy_outliers returns
\* exactly the two elements with entropies 1 and 100.
ExampleFlags1And100 ==
    /\ (data = TukeyExample /\ op = "interquartile_range")
            => statResult = Some(Iqr(2, 2, 0))
    /\ (data = TukeyExample /\ op = "entropy_outliers")
            => statResult = Some(<<FileEntropy(1, 1), FileEntropy(10, 100)>>)

ExampleOutliersComputed ==
    /\ data = TukeyExample
    /\ op = "entropy_outliers"
    /\ IsSome(statResult)
    /\ Len(statResult.value) = 2

\* C3: a stats run in which no file is scored does not abort when it builds the
\* Stats record: the "no value" of the statistics is an expected outcome.
EmptyScanDoesNotAbort == (pc # "start" /\ entropies = <<>>) => stats # Panic

OneByteOver == file.len = U64Succ(MAX_FILE_SIZE)

\* C4: calculate_entropy reports the first guard that fails, in the order
\* metadata, size, directory, read; a size equal to the maximum passes and one
\* byte over fails, also for a directory; a FileEntropy is returned only when
\* all four guards pass.
GuardsInOrder ==
    calcResult # Pending =>
        /\ ~file.metaOk => calcResult = Err("Couldn't read file metadata!")
        /\ (file.metaOk /\ OneByteOver) => calcResult = Err("File too large")
        /\ (file.metaOk /\ ~OneByteOver /\ file.isDir)
                => calcResult = Err("Is a directory")
        /\ (file.metaOk /\ ~OneByteOver /\ ~file.isDir /\ ~file.readOk)
                => calcResult = Err("Couldn't read file!")
        /\ (file.metaOk /\ ~OneByteOver /\ ~file.isDir /\ file.readOk)
                => (calcResult.kind = "Ok" /\ calcResult.value.path = file.path)
        /\ calcResult.kind = "Ok"
                => (file.metaOk /\ ~OneByteOver /\ ~file.isDir /\ file.readOk)

FirstOfSeveralGuardsReported ==
    /\ calcResult = Err("File too large")
    /\ file.isDir
    /\ ~file.readOk

ScoredTargets == {i \in 1 .. Len(targets) : calculate_entropy(targets[i]).kind = "Ok"}

FailedTargets == (1 .. Len(targets)) \ ScoredTargets

ScoredSum ==
    SumOver([i \in ScoredTargets |-> calculate_entropy(targets[i]).value.entropy],
            ScoredTargets)

\* C5: in the Stats record, total is the number of discovered targets, the
\* aggregates are those of the scored records only, total >= the number of scored
\* records, and the difference is the number of targets that failed a guard.
TotalCountsDiscovered ==
    IsSome(stats) =>
        /\ stats.value.total = Len(targets)
        /\ Len(entropies) = Cardinality(ScoredTargets)
        /\ stats.value.total >= Len(entropies)
        /\ stats.value.total - Len(entropies) = Cardinality(FailedTargets)
        /\ stats.value.mean[1] * Cardinality(ScoredTargets) = stats.value.mean[2] * ScoredSum
        /\ Some(stats.value.mean) = mean(entropies)
        /\ Some(stats.value.median) = median(entropies)
        /\ Some(stats.value.variance) = variance(entropies)
        /\ stats.value.iqr = interquartile_range(entropies).value.range

StatsBuiltWithFailures ==
    /\ IsSome(stats)
    /\ stats.value.total > Len(entropies)
    /\ Len(entropies) >= 3

NoneOutsideFences(d, iqr) ==
    \A i \in 1 .. Len(d) :
        /\ 2 * iqr.q1 - 3 * iqr.range <= 2 * d[i].entropy
        /\ 2 * d[i].entropy <= 2 * iqr.q3 + 3 * iqr.range

SingletonSummary ==
    Len(data) = 1 =>
        /\ op = "interquartile_range"
                => statResult = Some(Iqr(data[1].entropy, data[1].entropy, 0))
        /\ op = "entropy_outliers" => statResult = Some(<<>>)

SingletonNotFlagged ==
    /\ Len(data) = 1
    /\ data[1].entropy > 0
    /\ op = "entropy_outliers"
    /\ statResult = Some(<<>>)

NumChunks(bytes) == (Len(bytes) + MAX_ENTROPY_CHUNK - 1) \div MAX_ENTROPY_CHUNK

ChunkAt(bytes, k) ==
    SubSeq(bytes, (k - 1) * MAX_ENTROPY_CHUNK + 1, Min(k * MAX_ENTROPY_CHUNK, Len(bytes)))

EntropyAlone(chunk) ==
    calculate_entropy(File(1, TRUE, <<0, Len(chunk)>>, FALSE, TRUE, chunk)).value.entropy

Uniform(chunk) ==
    \A b \in Bytes :
        NumByteValues * Cardinality({i \in 1 .. Len(chunk) : chunk[i] = b}) = Len(chunk)

MaxChunkEntropy == Log2Fix(NumByteValues) * ChunkDenominator

TwoUniformChunks(bytes) ==
    /\ Len(bytes) = 2 * MAX_ENTROPY_CHUNK
    /\ Uniform(ChunkAt(bytes, 1))
    /\ Uniform(ChunkAt(bytes, 2))

\* C8: the entropy reported for a file is the sum of the entropies of its
\* consecutive chunks, each taken by itself (the last possibly shorter): what
\* the calculator reports for each chunk as a file of its own, added up.  A file
\* of two full chunks, each with all byte values equally frequent, reports twice
\* the single-chunk maximum log2(NumByteValues); a file of zero chunks reports 0.
ChunkEntropiesSummed ==
    calcResult.kind = "Ok" =>
        LET bytes == file.bytes
            n == NumChunks(bytes)
            entropy == calcResult.value.entropy
        IN  /\ entropy = SumOver([k \in 1 .. n |-> EntropyAlone(ChunkAt(bytes, k))], 1 .. n)
            /\ bytes = <<>> => entropy = 0
            /\ TwoUniformChunks(bytes) => entropy = 2 * MaxChunkEntropy

TwoUniformChunksScored ==
    /\ calcResult.kind = "Ok"
    /\ TwoUniformChunks(file.bytes)
    /\ calcResult.value.entropy = 2 * MaxChunkEntropy
    /\ MaxChunkEntropy > 0

ScoredIn(k) == {i \in 1 .. k : calculate_entropy(targets[i]).kind = "Ok"}

RecordsOfPrefix(ents, k) ==
    /\ Len(ents) = Cardinality(ScoredIn(k))
    /\ \A i \in ScoredIn(k) :
            ents[Cardinality({j \in ScoredIn(k) : j <= i})]
                = calculate_entropy(targets[i]).value

CollectedIsScoredPrefix ==
    /\ idx \in 0 .. Len(targets)
    /\ RecordsOfPrefix(entropies, idx)

CollectStepKeepsRecords ==
    /\ idx' \in {idx, idx + 1}
    /\ Len(entropies') \in {Len(entropies), Len(entropies) + 1}
    /\ SubSeq(entropies', 1, Len(entropies)) = entropies
    /\ (pc = "collect" /\ idx < Len(targets)) => idx' = idx + 1
    /\ (idx' = idx + 1 /\ calculate_entropy(targets[idx + 1]).kind # "Ok")
            => entropies' = entropies

\* C9: collect_entropies takes the targets one at a time in input order; after
\* every prefix the list holds exactly the records of that prefix's scored
\* targets, in input order, one each; a failing target adds nothing and stops
\* nothing, and no record already collected is removed or moved.
CollectInInputOrder == []CollectedIsScoredPrefix /\ [][CollectStepKeepsRecords]_vars

CollectedAfterFailure ==
    /\ idx = Len(targets)
    /\ Len(entropies) >= 2
    /\ calculate_entropy(targets[1]).kind # "Ok"
    /\ \E i \in 2 .. idx - 1 : calculate_entropy(targets[i]).kind # "Ok"

\* C10: for every non-empty input interquartile_range returns a summary with
\* range = q3 - q1 >= 0, and the positions q1_index (n/4 for even n, (n+1)/4 for
\* odd n) and q3_index = 3 * q1_index it reads lie in 1..n, q1_index <= q3_index.
QuartilePositionsInRange ==
    (op = "interquartile_range" /\ Len(data) >= 1) =>
        LET n == Len(data)
            q1_index == IF n % 2 = 0 THEN n \div 4 ELSE (n + 1) \div 4
            q3_index == 3 * q1_index
        IN  /\ IsSome(statResult)
            /\ statResult.value.range = statResult.value.q3 - statResult.value.q1
            /\ statResult.value.range >= 0
            /\ n >= 2 => (q1_index \in 1 .. n /\ q3_index \in 1 .. n /\ q1_index <= q3_index)

=============================================================================
